---- MODULE Spec2Model ----
(***************************************************************************)
(* The student-query orchestration pipeline of uva-devops-cloud/services:  *)
(* the LLMQueryAnalyzer and AnswerGenerator Lambda handlers, the           *)
(* ConversationMemory and StudentQueryResponses tables they write and the  *)
(* asynchronous Worker Dispatcher invocation.                              *)
(*                                                                         *)
(* Every handler invocation is one action.  What the environment answers   *)
(* to a call the handler makes (the LLM, DynamoDB, Lambda invoke) is       *)
(* chosen at the place of the call.  The variable "last" records the last  *)
(* invocation: the event, the calls made in order, what the callees        *)
(* returned and the handler's result.                                      *)
(***************************************************************************)
EXTENDS Integers, Sequences, FiniteSets, TLC

VARIABLES conversationTable, responsesTable, dispatched, now, invocations, last,
          bundles, duplicate

vars == <<conversationTable, responsesTable, dispatched, now, invocations, last,
          bundles, duplicate>>

(***************************************************************************)
(* Bounds of the model.                                                    *)
(***************************************************************************)
MaxInvocations == 2
MaxTicks == 1

(***************************************************************************)
(* Python values.  A str is a Text: the sequence of the pieces an f-string *)
(* joins (the empty str is <<>>).  An event field that is absent or None   *)
(* is NONE.  A JSON value is a record of one shape for every type.         *)
(***************************************************************************)
NONE == "<None>"

Falsy(v) == v = NONE \/ v = ""

\* all([...]) over str-or-None values
All(fields) == \A i \in DOMAIN fields : ~Falsy(fields[i])

J(type, val, keys, vals) == [type |-> type, val |-> val, keys |-> keys, vals |-> vals]
JNull == J("null", <<>>, <<>>, <<>>)
JBool(b) == J("bool", <<IF b THEN "true" ELSE "false">>, <<>>, <<>>)
JStr(text) == J("str", text, <<>>, <<>>)
JNum(tok) == J("num", <<tok>>, <<>>, <<>>)
JList(vals) == J("list", <<>>, <<>>, vals)
JDict(keys, vals) == J("dict", <<>>, keys, vals)

\* bool(value)
Truthy(j) ==
    CASE j.type = "null" -> FALSE
      [] j.type = "bool" -> j.val = <<"true">>
      [] j.type = "str" -> j.val # <<>>
      [] j.type = "num" -> j.val \notin {<<"0">>, <<"0.0">>}
      [] OTHER -> Len(j.vals) > 0

HasKey(j, k) == j.type = "dict" /\ \E i \in DOMAIN j.keys : j.keys[i] = k

Lookup(j, k) == j.vals[CHOOSE i \in DOMAIN j.keys : j.keys[i] = k]

\* value[key]: the exception it raises, "" when it raises none
IndexError(j, k) ==
    IF j.type # "dict" THEN "TypeError"
    ELSE IF ~HasKey(j, k) THEN "KeyError"
    ELSE ""

\* str(e) of the exception value[key] raises
IndexErrorText(j, k) ==
    IF j.type # "dict" THEN <<j.type, " indices must be integers">> ELSE <<"'", k, "'">>

\* dict.get(key, default)
Get(j, k, default) == IF HasKey(j, k) THEN Lookup(j, k) ELSE default

Last(s, n) == SubSeq(s, IF Len(s) > n THEN Len(s) - n + 1 ELSE 1, Len(s))
First(s, n) == SubSeq(s, 1, IF Len(s) > n THEN n ELSE Len(s))

(***************************************************************************)
(* The environment: the messages, users and turns of the model, and what   *)
(* the external collaborators may answer.                                  *)
(***************************************************************************)
\* the correlation ids of the model in the order of the table's range key;
\* c1 and c2 are the turns invoked, the others belong to turns stored earlier
CorrIdOrder == <<"a1", "a2", "a3", "a4", "c1", "c2">>
CorrIds == {"c1", "c2"}
StoredIds == <<"a1", "a2", "a3", "a4">>
CorrRank(c) == CHOOSE i \in DOMAIN CorrIdOrder : CorrIdOrder[i] = c
Users == {"u1"}
Messages == {"What is my GPA?"}

\* a call of boto3 either returns or raises botocore's ClientError
StoreOutcomes == {"ok", "ClientError"}

LLMReply(error, content) == [error |-> error, content |-> content]
LLMError == "APIConnectionError"

NotJsonText == "Sure, happy to help with that!"
SmallTalkText == "{isSmallTalk: true, response: Hello! How can I help you today?, explanation: Greeting}"
NeedsAnalysisText == "{isSmallTalk: false, response: , explanation: Requires student data}"
ListText == "[]"
NoFlagText == "{response: Hello!}"
FlagOnlyText == "{isSmallTalk: true}"
OneWorkerText == "{requiredWorkers: [GetStudentCourses], parameters: {student_id: 12345}}"
NoWorkersText == "{requiredWorkers: [], parameters: {}}"
UnknownWorkerText == "{requiredWorkers: [GetFinancialAid], parameters: {}}"
TwoWorkersText == "{requiredWorkers: [GetStudentCourses, GetEnrollmentStatus], parameters: {}}"
DirectAnswerText == "Office hours are posted on the department page."
FinalAnswerText == "Your GPA is 3.8."

\* json.loads(content): the parsed value, or JSONDecodeError
JsonLoads(content) ==
    CASE content = SmallTalkText ->
           [ok |-> TRUE, value |-> JDict(<<"isSmallTalk", "response", "explanation">>,
               <<JBool(TRUE), JStr(<<"Hello! How can I help you today?">>), JStr(<<"Greeting">>)>>)]
      [] content = NeedsAnalysisText ->
           [ok |-> TRUE, value |-> JDict(<<"isSmallTalk", "response", "explanation">>,
               <<JBool(FALSE), JStr(<<>>), JStr(<<"Requires student data">>)>>)]
      [] content = ListText -> [ok |-> TRUE, value |-> JList(<<>>)]
      [] content = NoFlagText ->
           [ok |-> TRUE, value |-> JDict(<<"response">>, <<JStr(<<"Hello!">>)>>)]
      [] content = FlagOnlyText ->
           [ok |-> TRUE, value |-> JDict(<<"isSmallTalk">>, <<JBool(TRUE)>>)]
      [] content = OneWorkerText ->
           [ok |-> TRUE, value |-> JDict(<<"requiredWorkers", "parameters">>,
               <<JList(<<JStr(<<"GetStudentCourses">>)>>),
                 JDict(<<"student_id">>, <<JNum("12345")>>)>>)]
      [] content = NoWorkersText ->
           [ok |-> TRUE, value |-> JDict(<<"requiredWorkers", "parameters">>,
               <<JList(<<>>), JDict(<<>>, <<>>)>>)]
      [] content = TwoWorkersText ->
           [ok |-> TRUE, value |-> JDict(<<"requiredWorkers", "parameters">>,
               <<JList(<<JStr(<<"GetStudentCourses">>), JStr(<<"GetEnrollmentStatus">>)>>),
                 JDict(<<>>, <<>>)>>)]
      [] content = UnknownWorkerText ->
           [ok |-> TRUE, value |-> JDict(<<"requiredWorkers", "parameters">>,
               <<JList(<<JStr(<<"GetFinancialAid">>)>>), JDict(<<>>, <<>>)>>)]
      [] OTHER -> [ok |-> FALSE, value |-> JNull]

ClassifierReplies ==
    {LLMReply(LLMError, "")} \cup
    {LLMReply("", c) : c \in {NotJsonText, SmallTalkText, NeedsAnalysisText, ListText, NoFlagText,
                              FlagOnlyText}}

AnalyzerReplies ==
    {LLMReply(LLMError, "")} \cup
    {LLMReply("", c) : c \in {NotJsonText, OneWorkerText, NoWorkersText, UnknownWorkerText, ListText}}

DirectAnswerReplies == {LLMReply(LLMError, ""), LLMReply("", DirectAnswerText)}

FinalAnswerReplies == {LLMReply(LLMError, ""), LLMReply("", FinalAnswerText)}

\* the worker Lambdas the analysis prompt lists as available
WorkerIdentifiers ==
    {"GetStudentData", "GetStudentCourses", "GetProgramDetails", "GetProgramCourses",
     "GetEnrollmentStatus", "GetUsageInfo"}

QAEvent(c, u, m) == [correlationId |-> c, userId |-> u, message |-> m]

ValidQAEvents == {QAEvent(c, u, m) : c \in CorrIds, u \in Users, m \in Messages}

\* one required field of a turn-entry event absent or empty
InvalidQAEvents ==
    {QAEvent(x, "u1", "What is my GPA?") : x \in {NONE, ""}} \cup
    {QAEvent("c1", x, "What is my GPA?") : x \in {NONE, ""}} \cup
    {QAEvent("c1", "u1", x) : x \in {NONE, ""}} \cup
    {QAEvent(NONE, NONE, NONE)}

QAEvents == ValidQAEvents \cup InvalidQAEvents

AGEvent(c, u, m, r) == [correlationId |-> c, userId |-> u, message |-> m, responses |-> r]

GpaData == JDict(<<"gpa">>, <<JNum("3.8")>>)

\* the responses mapping of an aggregator event: absent, empty (every worker
\* timed out), {source: {data: ...}}, {source: data} and a source whose
\* payload is a list
NoResponses == JNull
EmptyResponses == JDict(<<>>, <<>>)
WrappedResponses ==
    JDict(<<"GetStudentCourses">>,
          <<JDict(<<"data", "status">>, <<GpaData, JStr(<<"success">>)>>)>>)
BareResponses == JDict(<<"GetStudentCourses">>, <<GpaData>>)
ListResponses == JDict(<<"GetStudentCourses">>, <<JList(<<GpaData>>)>>)

ValidAGEvents ==
    {AGEvent(c, u, m, r) : c \in CorrIds, u \in Users, m \in Messages,
                           r \in {EmptyResponses, WrappedResponses, BareResponses, ListResponses}}

InvalidAGEvents ==
    {AGEvent(x, "u1", "What is my GPA?", WrappedResponses) : x \in {NONE, ""}} \cup
    {AGEvent("c1", x, "What is my GPA?", WrappedResponses) : x \in {NONE, ""}} \cup
    {AGEvent("c1", "u1", x, WrappedResponses) : x \in {NONE, ""}} \cup
    {AGEvent("c1", "u1", "What is my GPA?", NoResponses)}

AGEvents == ValidAGEvents \cup InvalidAGEvents

(***************************************************************************)
(* The program's constants.                                                *)
(***************************************************************************)
TTLMinutes == 15
PromptLimit == 3
QAQueryLimit == 10
AGQueryLimit == 5

(***************************************************************************)
(* The ConversationMemory table: at most one item per (UserId,             *)
(* CorrelationId), the table's hash and range key.                         *)
(***************************************************************************)
\* a put that keeps the item already stored under the key
PutItem_KeepsOld(table, item) == table \cup {item}

\* a put into a table whose only key is UserId
PutItem_ByUser(table, item) == {i \in table : i.UserId # item.UserId} \cup {item}

PutItem(table, item) ==
    {i \in table : ~(i.UserId = item.UserId /\ i.CorrelationId = item.CorrelationId)}
        \cup {item}

ConversationItem(user_id, correlation_id, question, answer, t) ==
    [UserId |-> user_id, CorrelationId |-> correlation_id, timestamp |-> t,
     ExpirationTime |-> t + TTLMinutes, question |-> question, answer |-> answer]

HistoryEntry(item) ==
    [question |-> item.question, answer |-> item.answer, timestamp |-> item.timestamp]

\* the items of one hash key in ascending order of the range key
QueryAscending(table, user_id) ==
    LET S == {i \in table : i.UserId = user_id}
    IN CHOOSE s \in [1..Cardinality(S) -> S] :
           \A i, j \in 1..Cardinality(S) :
               i < j => CorrRank(s[i].CorrelationId) < CorrRank(s[j].CorrelationId)

\* a read whose except clause returns what it has instead of []
QA_get_conversation_history_KeepsItems(table, user_id, outcome) ==
    LET items == First(QueryAscending(table, user_id), QAQueryLimit)
    IN [i \in DOMAIN items |-> HistoryEntry(items[i])]

QA_get_conversation_history(table, user_id, outcome) ==
    IF outcome # "ok" THEN <<>>
    ELSE LET items == First(QueryAscending(table, user_id), QAQueryLimit)
         IN [i \in DOMAIN items |-> HistoryEntry(items[i])]

\* the table after the call and the exception the call raises ("" for none)
QA_store_conversation_history(table, user_id, correlation_id, question, answer, t, outcome) ==
    IF outcome = "ok"
    THEN [raised |-> "",
          table |-> PutItem(table, ConversationItem(user_id, correlation_id, question, answer, t))]
    ELSE [raised |-> "", table |-> table]

\* str.strip() of the formatted history: the trailing blank line goes
Strip(text) ==
    IF text # <<>> /\ text[Len(text)] = "\n\n" THEN SubSeq(text, 1, Len(text) - 1) ELSE text

RECURSIVE FormatEntries(_)
FormatEntries(entries) ==
    IF entries = <<>> THEN <<>>
    ELSE <<"Student: ", entries[1].question, "\n", "Assistant: ">> \o entries[1].answer
             \o <<"\n\n">> \o FormatEntries(Tail(entries))

format_conversation_history_for_prompt(conversation_history, limit) ==
    IF conversation_history = <<>> THEN <<>>
    ELSE Strip(FormatEntries(Last(conversation_history, limit)))

(***************************************************************************)
(* LLMQueryAnalyzer: the three LLM steps.                                  *)
(***************************************************************************)
Prompt(system, human) == [system |-> system, human |-> human]

\* recent_history is None in check_for_small_talk and analyze_query
check_for_small_talk_messages(message, conversation_history) ==
    Prompt("SMALL_TALK_SYSTEM_MESSAGE", <<message>>)

\* a classifier that answers a failed LLM call as small talk
check_for_small_talk_FailsOpen(message, conversation_history, reply) ==
    IF reply.error # ""
    THEN JDict(<<"isSmallTalk", "response", "explanation">>,
               <<JBool(TRUE), JStr(<<"Error: ", reply.error>>), JStr(<<>>)>>)
    ELSE IF JsonLoads(reply.content).ok
    THEN JsonLoads(reply.content).value
    ELSE JDict(<<"isSmallTalk", "response", "explanation">>,
               <<JBool(FALSE), JStr(<<>>), JStr(<<"Failed to parse response">>)>>)

check_for_small_talk(message, conversation_history, reply) ==
    IF reply.error # ""
    THEN JDict(<<"isSmallTalk", "response", "explanation">>,
               <<JBool(FALSE), JStr(<<>>), JStr(<<"Error: ", reply.error>>)>>)
    ELSE IF JsonLoads(reply.content).ok
    THEN JsonLoads(reply.content).value
    ELSE JDict(<<"isSmallTalk", "response", "explanation">>,
               <<JBool(FALSE), JStr(<<>>), JStr(<<"Failed to parse response">>)>>)

analyze_query_messages(message, conversation_history) ==
    Prompt("QUERY_ANALYSIS_SYSTEM_MESSAGE", <<message>>)

AnalysisFallback(tag) ==
    JDict(<<"dataSources", "operations", "parameters", "question_type", "complexity">>,
          <<JList(<<JStr(<<tag>>)>>), JList(<<JStr(<<"retrieve">>)>>), JDict(<<>>, <<>>),
            JStr(<<tag>>), JStr(<<"unknown">>)>>)

analyze_query(message, conversation_history, reply) ==
    IF reply.error # "" THEN AnalysisFallback("error")
    ELSE IF JsonLoads(reply.content).ok THEN JsonLoads(reply.content).value
    ELSE AnalysisFallback("unknown")

get_direct_answer_messages(message, conversation_history) ==
    LET recent_history == format_conversation_history_for_prompt(conversation_history, PromptLimit)
    IN IF recent_history # <<>>
       THEN Prompt("DIRECT_ANSWER_SYSTEM_MESSAGE",
                   <<"Recent conversation: ">> \o recent_history
                       \o <<"\n\nStudent question: ", message>>)
       ELSE Prompt("DIRECT_ANSWER_SYSTEM_MESSAGE", <<"Student question: ", message>>)

DirectAnswerApology ==
    <<"I'm sorry, I'm having trouble responding right now. Please try again later.">>

\* the except clause returns the error's text in place of the apology
get_direct_answer_ErrorText(message, conversation_history, reply) ==
    IF reply.error # "" THEN <<"Error: ", reply.error>> ELSE <<reply.content>>

get_direct_answer(message, conversation_history, reply) ==
    IF reply.error # "" THEN DirectAnswerApology ELSE <<reply.content>>

(***************************************************************************)
(* AnswerGenerator: the history read, the prompt and the two writes.       *)
(***************************************************************************)
\* a query without the key condition on UserId
QueryDescending_AllUsers(table, user_id) ==
    LET S == table
    IN {s \in [1..Cardinality(S) -> S] :
           /\ \A i, j \in 1..Cardinality(S) : i # j => s[i] # s[j]
           /\ \A i, j \in 1..Cardinality(S) :
                  i < j => s[i].ExpirationTime >= s[j].ExpirationTime}

\* every order the index may return the user's items in: descending by
\* ExpirationTime, items of equal ExpirationTime in either order
QueryDescending(table, user_id) ==
    LET S == {i \in table : i.UserId = user_id}
    IN {s \in [1..Cardinality(S) -> S] :
           /\ \A i, j \in 1..Cardinality(S) : i # j => s[i] # s[j]
           /\ \A i, j \in 1..Cardinality(S) :
                  i < j => s[i].ExpirationTime >= s[j].ExpirationTime}

\* the histories the read may return
AG_get_conversation_history(table, user_id, limit, outcome) ==
    IF outcome # "ok" THEN {<<>>}
    ELSE {[i \in DOMAIN First(items, limit) |-> HistoryEntry(items[i])] :
             items \in QueryDescending(table, user_id)}

format_conversation_history(conversation_history, limit) ==
    IF conversation_history = <<>> THEN <<>>
    ELSE Strip(FormatEntries(Last(conversation_history, limit)))

\* the data looked up under the key 'Data'
format_data_for_llm_UpperKey(original_message, responses) ==
    IF \E i \in DOMAIN responses.vals : responses.vals[i].type # "dict"
    THEN [raised |-> "AttributeError", data |-> JNull]
    ELSE [raised |-> "",
          data |-> JDict(responses.keys,
                         [i \in DOMAIN responses.vals |->
                             Get(responses.vals[i], "Data", JDict(<<>>, <<>>))])]

\* formatted_data, or the AttributeError of response_obj.get on a payload
\* that is no dict
format_data_for_llm(original_message, responses) ==
    IF \E i \in DOMAIN responses.vals : responses.vals[i].type # "dict"
    THEN [raised |-> "AttributeError", data |-> JNull]
    ELSE [raised |-> "",
          data |-> JDict(responses.keys,
                         [i \in DOMAIN responses.vals |->
                             Get(responses.vals[i], "data", JDict(<<>>, <<>>))])]

\* str(value) of a parsed JSON value
RECURSIVE PyStr(_)
RECURSIVE PyStrAll(_)
PyStr(j) ==
    CASE j.type = "null" -> <<"None">>
      [] j.type = "bool" -> IF j.val = <<"true">> THEN <<"True">> ELSE <<"False">>
      [] j.type = "list" -> <<"[">> \o PyStrAll(j.vals) \o <<"]">>
      [] j.type = "dict" -> <<"{">> \o PyStrAll(j.vals) \o <<"}">>
      [] OTHER -> j.val
PyStrAll(vals) ==
    IF vals = <<>> THEN <<>> ELSE PyStr(vals[1]) \o PyStrAll(Tail(vals))

\* the "  key: value" lines of a dict
RECURSIVE KeyValueLines(_, _)
KeyValueLines(keys, vals) ==
    IF keys = <<>> THEN <<>>
    ELSE <<"  ", keys[1], ": ">> \o PyStr(vals[1]) \o <<"\n">>
             \o KeyValueLines(Tail(keys), Tail(vals))

RECURSIVE ItemLines(_)
ItemLines(items) ==
    IF items = <<>> THEN <<>>
    ELSE (IF items[1].type = "dict" THEN KeyValueLines(items[1].keys, items[1].vals)
          ELSE <<"  ">> \o PyStr(items[1]) \o <<"\n">>)
             \o ItemLines(Tail(items))

SourceLines(source_data) ==
    CASE source_data.type = "dict" -> KeyValueLines(source_data.keys, source_data.vals)
      [] source_data.type = "list" -> ItemLines(source_data.vals)
      [] OTHER -> <<"  ">> \o PyStr(source_data) \o <<"\n">>

RECURSIVE SourceSections(_, _)
SourceSections(keys, vals) ==
    IF keys = <<>> THEN <<>>
    ELSE <<"\n", keys[1], ":\n">> \o SourceLines(vals[1])
             \o SourceSections(Tail(keys), Tail(vals))

DataContext(data) == <<"Data sources:\n">> \o SourceSections(data.keys, data.vals)

generate_answer_messages(message, data, conversation_history) ==
    LET conversation_context == format_conversation_history(conversation_history, PromptLimit)
        prompt_content == <<"Student question: ", message, "\n\n">> \o DataContext(data)
    IN IF conversation_context # <<>>
       THEN Prompt("FINAL_ANSWER_SYSTEM_MESSAGE",
                   <<"Conversation history:\n">> \o conversation_context \o <<"\n\n">>
                       \o prompt_content)
       ELSE Prompt("FINAL_ANSWER_SYSTEM_MESSAGE", prompt_content)

generate_answer(message, data, conversation_history, reply) ==
    IF reply.error # ""
    THEN <<"I'm sorry, but I encountered an error while generating your answer. Please try again later. Error: ",
           reply.error>>
    ELSE <<reply.content>>

\* the StudentQueryResponses table: one item per CorrelationId
PutResponse(table, item) ==
    {i \in table : i.CorrelationId # item.CorrelationId} \cup {item}

store_response(table, correlation_id, user_id, question, answer, t, outcome) ==
    IF outcome = "ok"
    THEN [raised |-> "",
          table |-> PutResponse(table,
                        [CorrelationId |-> correlation_id, UserId |-> user_id,
                         Timestamp |-> t, Question |-> question, Answer |-> answer,
                         Status |-> "complete"])]
    ELSE [raised |-> outcome, table |-> table]

AG_store_conversation_history(table, user_id, correlation_id, question, answer, t, outcome) ==
    IF outcome = "ok"
    THEN [raised |-> "",
          table |-> PutItem(table, ConversationItem(user_id, correlation_id, question, answer, t))]
    ELSE [raised |-> outcome, table |-> table]

(***************************************************************************)
(* The record of an invocation, and the handlers' results.                 *)
(***************************************************************************)
NoReply == LLMReply("", "")
NoPrompt == Prompt("", <<>>)

\* a call of a store or of the dispatcher, and a call of the LLM
Call(name, ok) == [name |-> name, ok |-> ok, reply |-> NoReply, prompt |-> NoPrompt]
LLMCall(name, reply, prompt) ==
    [name |-> name, ok |-> reply.error = "", reply |-> reply, prompt |-> prompt]

Response(statusCode, body) == [statusCode |-> statusCode, body |-> body]

\* the invocation before its first step: nothing called, nothing returned
Trace(stage, event) ==
    [stage |-> stage, event |-> event, result |-> Response(0, [message |-> <<>>]),
     calls |-> <<>>, history |-> <<>>, smallTalk |-> JNull, analysis |-> JNull,
     answer |-> <<>>, raised |-> "", raisedAt |-> ""]

Returns(trace, result) == [trace EXCEPT !.result = result]

\* an exception reaches the handler's own except clause
Raises(trace, error, at, result) ==
    [trace EXCEPT !.raised = error, !.raisedAt = at, !.result = result]

Calls(trace, call) == [trace EXCEPT !.calls = Append(@, call)]

QA_BadRequest ==
    Response(400, [message |-> <<"Missing required parameters">>, status |-> "error"])

QA_SmallTalkResponse(correlation_id, response) ==
    Response(200, [correlationId |-> correlation_id, message |-> response,
                   requiresWorkers |-> FALSE, isSmallTalk |-> TRUE])

\* 'requiresWorkers': True in the direct answer's body
QA_DirectResponse_RequiresWorkers(correlation_id, direct_response) ==
    Response(200, [correlationId |-> correlation_id, message |-> direct_response,
                   requiresWorkers |-> TRUE])

QA_DirectResponse(correlation_id, direct_response) ==
    Response(200, [correlationId |-> correlation_id, message |-> direct_response,
                   requiresWorkers |-> FALSE])

\* 'statusCode': 200 for the accepted dispatch
QA_DispatchedResponse_OK(correlation_id, query_analysis) ==
    Response(200, [correlationId |-> correlation_id,
                   message |-> <<"Query analysis complete, worker dispatcher invoked">>,
                   analysis |-> query_analysis, requiresWorkers |-> TRUE])

QA_DispatchedResponse(correlation_id, query_analysis) ==
    Response(202, [correlationId |-> correlation_id,
                   message |-> <<"Query analysis complete, worker dispatcher invoked">>,
                   analysis |-> query_analysis, requiresWorkers |-> TRUE])

QA_ErrorResponse(text) ==
    Response(500, [message |-> <<"An error occurred: ">> \o text, status |-> "error"])

AG_BadRequest ==
    Response(400, [message |-> <<"Missing required data in event">>, status |-> "error"])

AG_CompleteResponse(correlation_id, final_answer) ==
    Response(200, [correlationId |-> correlation_id, message |-> final_answer,
                   status |-> "complete"])

AG_ErrorResponse(text) ==
    Response(500, [message |-> <<"An error occurred in the Answer Generator: ">> \o text,
                   status |-> "error"])

\* what iterating over requiredWorkers yields (a str yields its characters,
\* kept as one piece here; a number or a bool is not iterable)
Iterable(j) == j.type \in {"list", "dict", "str"}

Elements(j) ==
    CASE j.type = "list" -> j.vals
      [] j.type = "dict" -> [i \in DOMAIN j.keys |-> JStr(<<j.keys[i]>>)]
      [] OTHER -> [i \in DOMAIN j.val |-> JStr(<<j.val[i]>>)]

RequiredWorkers(query_analysis) == Get(query_analysis, "requiredWorkers", JList(<<>>))

RequiredData(query_analysis) ==
    LET workers == Elements(RequiredWorkers(query_analysis))
    IN [i \in DOMAIN workers |->
           [source |-> workers[i],
            params |-> Get(query_analysis, "parameters", JDict(<<>>, <<>>))]]

DispatcherPayload(correlation_id, user_id, message, query_analysis) ==
    [correlationId |-> correlation_id, userId |-> user_id, originalMessage |-> message,
     requiredData |-> RequiredData(query_analysis), llmAnalysis |-> query_analysis]

\* the handler returns: the tables and the in-flight invocations it leaves
Return(trace, conversation, responses, invoked) ==
    /\ last' = trace
    /\ conversationTable' = conversation
    /\ responsesTable' = responses
    /\ dispatched' = invoked
    /\ invocations' = invocations + 1
    /\ UNCHANGED <<now, bundles, duplicate>>

\* the handler returns having changed nothing
ReturnOnly(trace) == Return(trace, conversationTable, responsesTable, dispatched)

(***************************************************************************)
(* LLMQueryAnalyzer.lambda_handler                                         *)
(***************************************************************************)
QA == "LLMQueryAnalyzer"

\* any([...]) in place of all([...])
QA_MissingParameters_Any(event) ==
    \A i \in 1..3 : Falsy(<<event.correlationId, event.userId, event.message>>[i])

QA_MissingParameters(event) ==
    ~All(<<event.correlationId, event.userId, event.message>>)

\* the branch taken when isSmallTalk is truthy
QA_SmallTalk(event, trace) ==
    LET small_talk_response == trace.smallTalk
    IN IF IndexError(small_talk_response, "response") # ""
       THEN \* the inner try catches the KeyError, the return statement raises it again
            ReturnOnly(Raises(trace, IndexError(small_talk_response, "response"),
                              "small_talk_response['response']",
                              QA_ErrorResponse(IndexErrorText(small_talk_response, "response"))))
       ELSE \E wr \in StoreOutcomes :
            LET response == Lookup(small_talk_response, "response").val
                stored == QA_store_conversation_history(conversationTable, event.userId,
                              event.correlationId, event.message, response, now, wr)
            IN Return(Returns([Calls(trace, Call("store_conversation_history", wr = "ok"))
                                  EXCEPT !.answer = response],
                              QA_SmallTalkResponse(event.correlationId, response)),
                      stored.table, responsesTable, dispatched)

\* the branch taken when requiredWorkers is empty or absent
QA_DirectAnswer(event, trace) ==
    \E llm \in DirectAnswerReplies, wr \in StoreOutcomes :
        LET direct_response == get_direct_answer(event.message, trace.history, llm)
            stored == QA_store_conversation_history(conversationTable, event.userId,
                          event.correlationId, event.message, direct_response, now, wr)
            called == Calls(Calls(trace,
                                  LLMCall("get_direct_answer", llm,
                                          get_direct_answer_messages(event.message,
                                                                     trace.history))),
                            Call("store_conversation_history", wr = "ok"))
        IN Return(Returns([called EXCEPT !.answer = direct_response],
                          QA_DirectResponse(event.correlationId, direct_response)),
                  stored.table, responsesTable, dispatched)

\* the branch that invokes the Worker Dispatcher
QA_Dispatch(event, trace) ==
    IF ~Iterable(RequiredWorkers(trace.analysis))
    THEN ReturnOnly(Raises(trace, "TypeError", "requiredWorkers",
                           QA_ErrorResponse(<<"object is not iterable">>)))
    ELSE \E inv \in StoreOutcomes :
         IF inv = "ok"
         THEN Return(Returns(Calls(trace, Call("lambda_client.invoke", TRUE)),
                             QA_DispatchedResponse(event.correlationId, trace.analysis)),
                     conversationTable, responsesTable,
                     Append(dispatched,
                            DispatcherPayload(event.correlationId, event.userId,
                                              event.message, trace.analysis)))
         ELSE ReturnOnly(Raises(Calls(trace, Call("lambda_client.invoke", FALSE)),
                                inv, "lambda_client.invoke", QA_ErrorResponse(<<inv>>)))

\* the regular flow after the small-talk check
QA_Analysis(event, trace) ==
    \E llm \in AnalyzerReplies :
        LET query_analysis == analyze_query(event.message, trace.history, llm)
            analysed == [Calls(trace,
                               LLMCall("analyze_query", llm,
                                       analyze_query_messages(event.message, trace.history)))
                            EXCEPT !.analysis = query_analysis]
        IN IF query_analysis.type # "dict"
           THEN ReturnOnly(Raises(analysed, "AttributeError", "query_analysis.get",
                                  QA_ErrorResponse(<<query_analysis.type,
                                                     " object has no attribute 'get'">>)))
           ELSE IF ~Truthy(RequiredWorkers(query_analysis))
           THEN QA_DirectAnswer(event, analysed)
           ELSE QA_Dispatch(event, analysed)

LLMQueryAnalyzer_lambda_handler(event) ==
    IF QA_MissingParameters(event)
    THEN ReturnOnly(Returns(Trace(QA, event), QA_BadRequest))
    ELSE \E rd \in StoreOutcomes, llm \in ClassifierReplies :
        LET conversation_history ==
                QA_get_conversation_history(conversationTable, event.userId, rd)
            small_talk_response ==
                check_for_small_talk(event.message, conversation_history, llm)
            read == [Calls(Trace(QA, event), Call("get_conversation_history", rd = "ok"))
                        EXCEPT !.history = conversation_history]
            checked == [Calls(read,
                              LLMCall("check_for_small_talk", llm,
                                      check_for_small_talk_messages(event.message,
                                                                    conversation_history)))
                           EXCEPT !.smallTalk = small_talk_response]
        IN IF IndexError(small_talk_response, "isSmallTalk") # ""
           THEN ReturnOnly(Raises(checked, IndexError(small_talk_response, "isSmallTalk"),
                                  "small_talk_response['isSmallTalk']",
                                  QA_ErrorResponse(IndexErrorText(small_talk_response,
                                                                  "isSmallTalk"))))
           ELSE IF Truthy(Lookup(small_talk_response, "isSmallTalk"))
           THEN QA_SmallTalk(event, checked)
           ELSE QA_Analysis(event, checked)

(***************************************************************************)
(* AnswerGenerator.lambda_handler                                          *)
(***************************************************************************)
AG == "AnswerGenerator"

\* a check of the responses alone
AG_MissingData_ResponsesOnly(event) == ~Truthy(event.responses)

AG_MissingData(event) ==
    ~(All(<<event.correlationId, event.userId, event.message>>) /\ Truthy(event.responses))

\* the two writes after the answer is generated
AG_Store(event, trace) ==
    \E sr \in StoreOutcomes :
        LET response == store_response(responsesTable, event.correlationId, event.userId,
                                       event.message, trace.answer, now, sr)
            stored == Calls(trace, Call("store_response", sr = "ok"))
        IN IF response.raised # ""
           THEN ReturnOnly(Raises(stored, response.raised, "store_response",
                                  AG_ErrorResponse(<<response.raised>>)))
           ELSE \E sc \in StoreOutcomes :
                LET history == AG_store_conversation_history(conversationTable,
                                   event.userId, event.correlationId, event.message,
                                   trace.answer, now, sc)
                    kept == Calls(stored, Call("store_conversation_history", sc = "ok"))
                IN IF history.raised # ""
                   THEN Return(Raises(kept, history.raised, "store_conversation_history",
                                      AG_ErrorResponse(<<history.raised>>)),
                               history.table, response.table, dispatched)
                   ELSE Return(Returns(kept, AG_CompleteResponse(event.correlationId,
                                                                 trace.answer)),
                               history.table, response.table, dispatched)

\* the steps after the event is accepted and the history is read
AG_Generate(event, trace) ==
    LET formatted == format_data_for_llm(event.message, event.responses)
    IN IF formatted.raised # ""
       THEN ReturnOnly(Raises(trace, formatted.raised, "format_data_for_llm",
                              AG_ErrorResponse(<<"'list' object has no attribute 'get'">>)))
       ELSE \E llm \in FinalAnswerReplies :
            LET final_answer ==
                    generate_answer(event.message, formatted.data, trace.history, llm)
                generated ==
                    [Calls(trace,
                           LLMCall("generate_answer", llm,
                                   generate_answer_messages(event.message, formatted.data,
                                                            trace.history)))
                        EXCEPT !.answer = final_answer]
            IN AG_Store(event, generated)

AnswerGenerator_lambda_handler(event) ==
    IF AG_MissingData(event)
    THEN ReturnOnly(Returns(Trace(AG, event), AG_BadRequest))
    ELSE \E rd \in StoreOutcomes :
         \E conversation_history \in
                AG_get_conversation_history(conversationTable, event.userId, AGQueryLimit, rd) :
             AG_Generate(event,
                         [Calls(Trace(AG, event), Call("get_conversation_history", rd = "ok"))
                             EXCEPT !.history = conversation_history])

(***************************************************************************)
(* The Worker Dispatcher and the Response Aggregator, which stand between   *)
(* the dispatcher invocation of LLMQueryAnalyzer and the event of           *)
(* AnswerGenerator.  Per correlationId the aggregator is Idle (nothing      *)
(* dispatched), Collecting, Complete or TimedOut; in the last two it has    *)
(* forwarded the Aggregated Bundle.                                         *)
(***************************************************************************)
WorkerResponse(c, source, data, status) ==
    [correlationId |-> c, source |-> source, data |-> data, status |-> status]

EnrollmentData == JDict(<<"status">>, <<JStr(<<"enrolled">>)>>)

\* what the worker of a source may answer: GetStudentCourses succeeds or
\* fails, GetEnrollmentStatus succeeds
WorkerResults(source) ==
    IF source = "GetStudentCourses"
    THEN {[data |-> GpaData, status |-> "success"],
          [data |-> JDict(<<>>, <<>>), status |-> "error"]}
    ELSE {[data |-> EnrollmentData, status |-> "success"]}

\* the bundle of a correlationId: its state, the turn, the expected source
\* set, the responses folded in so far and the bundles forwarded
IdleBundle ==
    [state |-> "Idle", userId |-> NONE, message |-> NONE, expected |-> {}, entries |-> <<>>,
     forwarded |-> <<>>]

\* duplicate: the last Worker Response folded in was for a source its
\* bundle already held
AggregatorInit ==
    /\ bundles = [c \in CorrIds |-> IdleBundle]
    /\ duplicate = FALSE

\* the payloads LLMQueryAnalyzer hands to the dispatcher
DispatchablePayloads ==
    {DispatcherPayload(c, u, m, analyze_query(m, <<>>, LLMReply("", text))) :
        c \in CorrIds, u \in Users, m \in Messages, text \in {OneWorkerText, TwoWorkersText}}

\* the expected source set of a dispatch
ExpectedSources(payload) ==
    {payload.requiredData[i].source.val[1] : i \in DOMAIN payload.requiredData}

Sources(entries) == {entries[i].source : i \in DOMAIN entries}

\* a merge that appends every response
Merge_Appends(entries, response) == Append(entries, response)

\* fold a response into the bundle keyed by source, last write wins
Merge(entries, response) ==
    IF response.source \in Sources(entries)
    THEN [i \in DOMAIN entries |->
             IF entries[i].source = response.source THEN response ELSE entries[i]]
    ELSE Append(entries, response)

\* the Aggregator -> Answer Generator event
AggregatedBundle(c, bundle, entries) ==
    AGEvent(c, bundle.userId, bundle.message,
            JDict([i \in DOMAIN entries |-> entries[i].source],
                  [i \in DOMAIN entries |-> entries[i].data]))

\* the dispatcher accepts a payload: one worker invocation per requirement
DispatcherAccept ==
    \E payload \in DispatchablePayloads :
        /\ bundles[payload.correlationId].state = "Idle"
        /\ bundles' = [bundles EXCEPT ![payload.correlationId] =
                          [IdleBundle EXCEPT !.state = "Collecting",
                                             !.userId = payload.userId,
                                             !.message = payload.originalMessage,
                                             !.expected = ExpectedSources(payload)]]
        /\ UNCHANGED <<conversationTable, responsesTable, dispatched, now, invocations, last,
                       duplicate>>

\* a response is folded into the bundle that is collecting, whatever its tag
BundleOf_AnyCollecting(response) ==
    IF \E c \in CorrIds : bundles[c].state = "Collecting"
    THEN CHOOSE c \in CorrIds :
             /\ bundles[c].state = "Collecting"
             /\ \A d \in CorrIds : bundles[d].state = "Collecting" => CorrRank(c) <= CorrRank(d)
    ELSE response.correlationId

\* the bundle a Worker Response is folded into
BundleOf(response) == response.correlationId

\* a bundle forwarded again by every arrival after it is complete
Forwards_Always(bundle, merged) == Sources(merged) = bundle.expected

\* the arrival that makes the bundle forward: the one after which every
\* expected source is present, in a bundle still collecting
Forwards(bundle, merged) ==
    bundle.state = "Collecting" /\ Sources(merged) = bundle.expected

\* a Worker Response arrives; after the bundle was forwarded it is dropped
WorkerResponseArrives ==
    \E c \in CorrIds :
    \E source \in bundles[c].expected :
    \E result \in WorkerResults(source) :
        LET response == WorkerResponse(c, source, result.data, result.status)
            key == BundleOf(response)
            bundle == bundles[key]
            merged == Merge(bundle.entries, response)
        IN /\ bundle.state = "Collecting" \/ Forwards(bundle, merged)
           /\ bundles' = [bundles EXCEPT ![key] =
                  [bundle EXCEPT
                      !.entries = merged,
                      !.state = IF Forwards(bundle, merged) THEN "Complete" ELSE @,
                      !.forwarded = IF Forwards(bundle, merged)
                                    THEN Append(@, AggregatedBundle(key, bundle, merged))
                                    ELSE @]]
           /\ duplicate' = (response.source \in Sources(bundle.entries))
           /\ UNCHANGED <<conversationTable, responsesTable, dispatched, now, invocations,
                          last>>

\* the waiting window of a bundle ends: what has arrived is forwarded
AggregatorTimeout(c) ==
    /\ bundles[c].state = "Collecting"
    /\ bundles' = [bundles EXCEPT
                      ![c].state = "TimedOut",
                      ![c].forwarded = Append(@, AggregatedBundle(c, bundles[c],
                                                                  bundles[c].entries))]
    /\ UNCHANGED <<conversationTable, responsesTable, dispatched, now, invocations, last,
                   duplicate>>

AggregatorTimesOut == \E c \in CorrIds : AggregatorTimeout(c)

\* a forwarded bundle invokes the Answer Generator (an asynchronous
\* invocation may be delivered more than once)
AnswerGeneratorReceives ==
    /\ invocations < MaxInvocations
    /\ \E c \in CorrIds : \E i \in DOMAIN bundles[c].forwarded :
           AnswerGenerator_lambda_handler(bundles[c].forwarded[i])

(***************************************************************************)
(* The specification.                                                      *)
(***************************************************************************)
NoInvocation == Trace("none", QAEvent(NONE, NONE, NONE))

Init ==
    /\ conversationTable = {}
    /\ responsesTable = {}
    /\ dispatched = <<>>
    /\ now = 0
    /\ invocations = 0
    /\ last = NoInvocation
    /\ AggregatorInit

QueryAnalyzerInvoke ==
    /\ invocations < MaxInvocations
    /\ \E event \in QAEvents : LLMQueryAnalyzer_lambda_handler(event)

AnswerGeneratorInvoke ==
    /\ invocations < MaxInvocations
    /\ \E event \in AGEvents : AnswerGenerator_lambda_handler(event)

\* time passes between invocations
Tick ==
    /\ now < MaxTicks * TTLMinutes
    /\ now' = now + TTLMinutes
    /\ UNCHANGED <<conversationTable, responsesTable, dispatched, invocations, last,
                   bundles, duplicate>>

Next == QueryAnalyzerInvoke \/ AnswerGeneratorInvoke

Spec == Init /\ [][Next]_vars

\* a user who has had four turns within the last minutes: the tables those
\* turns leave, by the order in which the turns were created (correlation ids
\* are opaque, so their order says nothing about the order in time)
StoredOrders == {<<0, 1, 2, 3>>, <<3, 2, 1, 0>>, <<2, 0, 3, 1>>}

StoredItem(id, t) ==
    ConversationItem("u1", id, "Question at " \o ToString(t),
                     <<"Answer at ", ToString(t)>>, t)

StoredTables ==
    {{StoredItem(StoredIds[i], order[i]) : i \in DOMAIN StoredIds} : order \in StoredOrders}

InitStored ==
    /\ conversationTable \in StoredTables
    /\ responsesTable = {}
    /\ dispatched = <<>>
    /\ now = Len(StoredIds)
    /\ invocations = 0
    /\ last = NoInvocation
    /\ AggregatorInit

SpecStored == InitStored /\ [][Next]_vars

\* the dispatcher and the aggregator alone
NextAggregator == DispatcherAccept \/ WorkerResponseArrives \/ AggregatorTimesOut

SpecAggregator == Init /\ [][NextAggregator]_vars

\* a bundle's waiting window ends at some time
SpecAggregatorFair ==
    SpecAggregator /\ \A c \in CorrIds : WF_vars(AggregatorTimeout(c))

\* from the dispatch to the Answer Generator
NextPipeline == NextAggregator \/ AnswerGeneratorReceives

SpecPipeline == Init /\ [][NextPipeline]_vars

\* the table's TTL process deletes an item some time after its ExpirationTime
TTLDelete ==
    /\ \E item \in conversationTable :
           /\ item.ExpirationTime <= now
           /\ conversationTable' = conversationTable \ {item}
    /\ UNCHANGED <<responsesTable, dispatched, now, invocations, last, bundles, duplicate>>

\* the same, with the clock running
NextClock == Next \/ Tick \/ TTLDelete

SpecClock == Init /\ [][NextClock]_vars

(***************************************************************************)
(* The claims.  Each is stated over the record of an invocation; the       *)
(* operators below read that record.                                       *)
(***************************************************************************)
MissingField(event) ==
    Falsy(event.correlationId) \/ Falsy(event.userId) \/ Falsy(event.message)

CallsNamed(trace, name) == {i \in DOMAIN trace.calls : trace.calls[i].name = name}
Called(trace, name) == CallsNamed(trace, name) # {}
CallFailed(trace, name) == \E i \in CallsNamed(trace, name) : ~trace.calls[i].ok
ReplyTo(trace, name) == trace.calls[CHOOSE i \in CallsNamed(trace, name) : TRUE].reply
Contains(text, piece) == \E i \in DOMAIN text : text[i] = piece

\* the classifier's value is NeedsAnalysis: a dict whose isSmallTalk is false
NeedsAnalysis(j) == HasKey(j, "isSmallTalk") /\ ~Truthy(Lookup(j, "isSmallTalk"))

\* the classifier's value is SmallTalk{response}
SmallTalkWithResponse(j) ==
    HasKey(j, "isSmallTalk") /\ Truthy(Lookup(j, "isSmallTalk")) /\ HasKey(j, "response")

\* the raw text parses to the strict structure {isSmallTalk, response, explanation}
StrictClassification(content) ==
    LET parsed == JsonLoads(content)
    IN /\ parsed.ok
       /\ parsed.value.type = "dict"
       /\ parsed.value.keys = <<"isSmallTalk", "response", "explanation">>
       /\ parsed.value.vals[1].type = "bool"
       /\ parsed.value.vals[2].type = "str"
       /\ parsed.value.vals[3].type = "str"

RaisedInClassification(trace) ==
    trace.raisedAt \in {"small_talk_response['isSmallTalk']", "small_talk_response['response']"}

\* C1: an invocation of either stage whose event has correlationId, userId and
\* message ends with a response text for the user (200) or with an accepted
\* dispatch (202), whatever the LLM, the tables and the dispatcher do.
C1_EveryTurnAnswered ==
    (last.stage \in {QA, AG} /\ ~MissingField(last.event)) =>
        \/ last.result.statusCode = 200
        \/ last.result.statusCode = 202 /\ ~CallFailed(last, "lambda_client.invoke")

\* C2: when analyze_query's LLM call fails or its output does not parse, the
\* analysis holds a non-empty set of required workers and the turn invokes the
\* dispatcher, never the direct-answer path.
C2_AnalyzerFallbackDispatches ==
    (/\ last.stage = QA
     /\ Called(last, "analyze_query")
     /\ \/ ReplyTo(last, "analyze_query").error # ""
        \/ ~JsonLoads(ReplyTo(last, "analyze_query").content).ok) =>
        /\ Truthy(RequiredWorkers(last.analysis))
        /\ Called(last, "lambda_client.invoke")
        /\ ~Called(last, "get_direct_answer")

\* C3: once the Answer Generator has produced an answer, a failed write of the
\* conversation record or of the Final Answer Record still returns 200,
\* status complete, with the generated answer.
C3_WriteFailureKeepsAnswer ==
    (/\ last.stage = AG
     /\ Called(last, "generate_answer")
     /\ \/ CallFailed(last, "store_response")
        \/ CallFailed(last, "store_conversation_history")) =>
        /\ last.result.statusCode = 200
        /\ last.result.body.status = "complete"
        /\ last.result.body.message = last.answer

\* C4: an aggregator event with an empty responses mapping and the three
\* fields present is answered: the answer is generated and returned as a
\* success.
C4_EmptyBundleAnswered ==
    (/\ last.stage = AG
     /\ ~MissingField(last.event)
     /\ last.event.responses = EmptyResponses) =>
        /\ Called(last, "generate_answer")
        /\ last.result.statusCode = 200

\* C5: LLM output that is not the strict three-field structure makes the
\* classifier yield NeedsAnalysis with an empty explanation, the turn goes on
\* to the Query Analyzer, and no error is raised from the malformed output.
C5_MalformedOutputNeedsAnalysis ==
    (/\ last.stage = QA
     /\ Called(last, "check_for_small_talk")
     /\ ReplyTo(last, "check_for_small_talk").error = ""
     /\ ~StrictClassification(ReplyTo(last, "check_for_small_talk").content)) =>
        /\ NeedsAnalysis(last.smallTalk)
        /\ Get(last.smallTalk, "explanation", JNull) = JStr(<<>>)
        /\ Called(last, "analyze_query")
        /\ ~RaisedInClassification(last)

\* C6: when the classifier's LLM call fails, the classifier yields
\* NeedsAnalysis (isSmallTalk false, empty response); the turn is not answered
\* as small talk, no error is raised from the classification, and the Query
\* Analyzer is called.
C6_ClassifierFailureNeedsAnalysis ==
    (/\ last.stage = QA
     /\ CallFailed(last, "check_for_small_talk")) =>
        /\ NeedsAnalysis(last.smallTalk)
        /\ Get(last.smallTalk, "response", JNull) = JStr(<<>>)
        /\ "isSmallTalk" \notin DOMAIN last.result.body
        /\ ~RaisedInClassification(last)
        /\ Called(last, "analyze_query")

\* C6, witness: the classifier's LLM call failed and the turn went on to an
\* accepted dispatch.
C6_Witness ==
    /\ last.stage = QA
    /\ CallFailed(last, "check_for_small_talk")
    /\ Called(last, "analyze_query")
    /\ last.result.statusCode = 202

\* C7: when the LLM fails during final answer generation, the answer is a
\* fallback that quotes the question, holds no text of the exception, and the
\* exception does not reach the handler.
C7_FallbackQuotesQuestion ==
    (/\ last.stage = AG
     /\ CallFailed(last, "generate_answer")) =>
        /\ Contains(last.answer, last.event.message)
        /\ ~Contains(last.answer, ReplyTo(last, "generate_answer").error)
        /\ last.raisedAt # "generate_answer"

\* C8: a turn-entry event without (or with an empty) correlationId, userId or
\* message gets a 400 error and the turn never starts: no LLM call, no
\* conversation read or write, no dispatcher invocation, nothing changed.
C8_RejectedTurnNeverStarts ==
    [][(/\ invocations' = invocations + 1
        /\ last'.stage = QA
        /\ MissingField(last'.event)) =>
           /\ last'.result.statusCode = 400
           /\ last'.result.body.status = "error"
           /\ last'.calls = <<>>
           /\ UNCHANGED <<conversationTable, responsesTable, dispatched>>]_vars

\* C8, witness: an event without a required field was rejected after an
\* earlier turn had left a conversation record.
C8_Witness ==
    /\ last.stage = QA
    /\ MissingField(last.event)
    /\ last.result.statusCode = 400
    /\ conversationTable # {}

\* C9: a message classified as small talk never invokes the dispatcher, gets
\* one conversation write, which leaves exactly one record for the turn's
\* (userId, correlationId) holding the classifier's response and touches no
\* other record, and the caller gets that response with a 200; when the write
\* fails the table is unchanged and the response is returned all the same.
C9_SmallTalkAnsweredDirectly ==
    [][(/\ invocations' = invocations + 1
        /\ last'.stage = QA
        /\ ~MissingField(last'.event)
        /\ SmallTalkWithResponse(last'.smallTalk)) =>
           LET event == last'.event
               response == Lookup(last'.smallTalk, "response").val
               OfTurn(table) == {i \in table : /\ i.UserId = event.userId
                                               /\ i.CorrelationId = event.correlationId}
           IN /\ dispatched' = dispatched
              /\ ~Called(last', "lambda_client.invoke")
              /\ last'.result.statusCode = 200
              /\ last'.result.body.message = response
              /\ last'.result.body.correlationId = event.correlationId
              /\ Cardinality(CallsNamed(last', "store_conversation_history")) = 1
              /\ IF CallFailed(last', "store_conversation_history")
                 THEN conversationTable' = conversationTable
                 ELSE /\ Cardinality(OfTurn(conversationTable')) = 1
                      /\ \A i \in OfTurn(conversationTable') :
                             i.answer = response /\ i.question = event.message
                      /\ conversationTable' \ OfTurn(conversationTable')
                             = conversationTable \ OfTurn(conversationTable)]_vars

\* C9, witness: a small-talk turn answered with 200 whose record replaced the
\* record an earlier invocation had written for the same turn.
C9_Witness ==
    /\ last.stage = QA
    /\ invocations = 2
    /\ SmallTalkWithResponse(last.smallTalk)
    /\ last.result.statusCode = 200
    /\ ~CallFailed(last, "store_conversation_history")
    /\ \E i \in conversationTable :
           /\ i.CorrelationId = last.event.correlationId
           /\ i.answer = Lookup(last.smallTalk, "response").val

\* C10: store_conversation_history never raises to its caller, in either
\* stage: a failed write is swallowed.
C10_AppendNeverRaises ==
    (/\ last.stage \in {QA, AG}
     /\ CallFailed(last, "store_conversation_history")) =>
        last.raisedAt # "store_conversation_history"

\* the record has reached its expiry at time t
Expired(item, t) == item.ExpirationTime <= t

LLMCalls(trace) == {i \in DOMAIN trace.calls : trace.calls[i].prompt # NoPrompt}

\* C11: a conversation record whose expiry has been reached when the history
\* is read is not among the turns the read returns and none of its text is in
\* a prompt of the invocation, also while the record is still in the table.
C11_ExpiredRecordNeverRead ==
    [][(/\ invocations' = invocations + 1
        /\ last'.stage \in {QA, AG}
        /\ ~MissingField(last'.event)) =>
           LET mine == {i \in conversationTable : i.UserId = last'.event.userId}
           IN /\ \A item \in mine :
                     Expired(item, now) =>
                         \A k \in DOMAIN last'.history : last'.history[k] # HistoryEntry(item)
              /\ (\A item \in mine : Expired(item, now)) =>
                     \A k \in LLMCalls(last') :
                         ~Contains(last'.calls[k].prompt.human, "Student: ")]_vars

\* the n turns of the user created last, oldest first
MostRecent(table, user_id, n) ==
    LET S == {i \in table : i.UserId = user_id}
        s == CHOOSE s \in [1..n -> S] :
                 /\ \A i, j \in 1..n : i < j => s[i].timestamp < s[j].timestamp
                 /\ \A x \in S : (\A i \in 1..n : s[i] # x) => x.timestamp < s[1].timestamp
    IN [i \in 1..n |-> HistoryEntry(s[i])]

\* C12: when the user has more stored turns than the prompt's limit and the
\* read succeeds, the prompt that carries history (get_direct_answer in the
\* Query Analyzer stage, generate_answer in the Answer Generator) is the prompt
\* built from the limit most recent turns by creation time, oldest first.
C12_MostRecentTurnsOldestFirst ==
    [][(/\ invocations' = invocations + 1
        /\ last'.stage \in {QA, AG}
        /\ ~MissingField(last'.event)
        /\ ~CallFailed(last', "get_conversation_history")
        /\ Cardinality({i \in conversationTable : i.UserId = last'.event.userId})
               > PromptLimit) =>
           LET event == last'.event
               recent == MostRecent(conversationTable, event.userId, PromptLimit)
           IN /\ \A k \in CallsNamed(last', "get_direct_answer") :
                     last'.calls[k].prompt = get_direct_answer_messages(event.message, recent)
              /\ \A k \in CallsNamed(last', "generate_answer") :
                     last'.calls[k].prompt =
                         generate_answer_messages(event.message,
                             format_data_for_llm(event.message, event.responses).data,
                             recent)]_vars

\* C13: when the read of the conversation table fails, the history the stage
\* works with is empty, the failure is not raised to the handler, and the turn
\* goes on as for a user without history: the next step runs and every prompt
\* is the prompt built from an empty history.
C13_ReadFailureIsEmptyHistory ==
    (/\ last.stage \in {QA, AG}
     /\ CallFailed(last, "get_conversation_history")) =>
        /\ last.history = <<>>
        /\ last.raisedAt # "get_conversation_history"
        /\ last.stage = QA => Called(last, "check_for_small_talk")
        /\ last.stage = AG =>
               \/ Called(last, "generate_answer")
               \/ last.raisedAt = "format_data_for_llm"
        /\ \A k \in CallsNamed(last, "get_direct_answer") :
               last.calls[k].prompt = get_direct_answer_messages(last.event.message, <<>>)
        /\ \A k \in CallsNamed(last, "generate_answer") :
               last.calls[k].prompt =
                   generate_answer_messages(last.event.message,
                       format_data_for_llm(last.event.message, last.event.responses).data,
                       <<>>)

\* C13, witness: the read failed for a user who has a stored turn, and the
\* Query Analyzer stage went on to answer directly.
C13_Witness ==
    /\ last.stage = QA
    /\ CallFailed(last, "get_conversation_history")
    /\ Called(last, "get_direct_answer")
    /\ last.result.statusCode = 200
    /\ \E i \in conversationTable :
           i.UserId = last.event.userId /\ i.CorrelationId # last.event.correlationId

\* C14: whatever an invocation for a turn produces carries the correlationId
\* of its event: the body it returns, each conversation record and Final
\* Answer Record it writes, and the dispatcher payload it emits.
C14_CorrelationIdCarried ==
    [][(/\ invocations' = invocations + 1
        /\ last'.stage \in {QA, AG}
        /\ ~MissingField(last'.event)) =>
           LET id == last'.event.correlationId
           IN /\ "correlationId" \in DOMAIN last'.result.body
              /\ last'.result.body.correlationId = id
              /\ \A item \in conversationTable' \ conversationTable : item.CorrelationId = id
              /\ \A item \in responsesTable' \ responsesTable : item.CorrelationId = id
              /\ \/ dispatched' = dispatched
                 \/ /\ Len(dispatched') = Len(dispatched) + 1
                    /\ SubSeq(dispatched', 1, Len(dispatched)) = dispatched
                    /\ dispatched'[Len(dispatched')].correlationId = id]_vars

CallSucceeded(trace, name) == \E i \in CallsNamed(trace, name) : trace.calls[i].ok

\* C15: once the Final Answer Record of a correlationId is in the responses
\* table, a further Answer Generator invocation for that correlationId does
\* not write it again and leaves the stored record as it is.
C15_FinalAnswerWrittenOnce ==
    [][(/\ invocations' = invocations + 1
        /\ last'.stage = AG
        /\ \E r \in responsesTable : r.CorrelationId = last'.event.correlationId) =>
           /\ ~CallSucceeded(last', "store_response")
           /\ responsesTable' = responsesTable]_vars

\* C16: a conversation write for a (userId, correlationId), repeated or not,
\* by either stage, leaves exactly one record for that turn, holding the
\* question and the answer of this write as a single write would, and leaves
\* the records of the user's other turns as they were.
C16_RepeatedWriteIsIdempotent ==
    [][(/\ invocations' = invocations + 1
        /\ last'.stage \in {QA, AG}
        /\ CallSucceeded(last', "store_conversation_history")) =>
           LET event == last'.event
               OfTurn(table) == {i \in table : /\ i.UserId = event.userId
                                               /\ i.CorrelationId = event.correlationId}
               Content(table) ==
                   {[question |-> i.question, answer |-> i.answer] : i \in OfTurn(table)}
           IN /\ Cardinality(OfTurn(conversationTable')) = 1
              /\ Content(conversationTable')
                     = {[question |-> event.message, answer |-> last'.answer]}
              /\ conversationTable' \ OfTurn(conversationTable')
                     = conversationTable \ OfTurn(conversationTable)]_vars

\* C16, witness: the Answer Generator read a stored turn of the user and then
\* wrote its record, and the table holds one record: both writes were for the
\* same (userId, correlationId).
C16_Witness ==
    /\ last.stage = AG
    /\ CallSucceeded(last, "store_conversation_history")
    /\ last.history # <<>>
    /\ Cardinality(conversationTable) = 1

ForwardedBundles(c) == {bundles[c].forwarded[i] : i \in DOMAIN bundles[c].forwarded}

\* C17: every Worker Response in the bundle of a correlationId is tagged with
\* that correlationId and every bundle forwarded for it holds only responses
\* of its own sources; an Answer Generator invocation for a forwarded bundle
\* builds its prompt from the responses of that bundle alone and writes the
\* Final Answer Record of that correlationId only, with its own answer.
C17_TurnsNeverCrossContaminate ==
    [][/\ \A c \in CorrIds :
              /\ \A i \in DOMAIN bundles'[c].entries :
                     /\ bundles'[c].entries[i].correlationId = c
                     /\ bundles'[c].entries[i].source \in bundles'[c].expected
              /\ \A i \in DOMAIN bundles'[c].forwarded :
                     LET bundle == bundles'[c].forwarded[i]
                     IN /\ bundle.correlationId = c
                        /\ \A k \in DOMAIN bundle.responses.keys :
                               \E j \in DOMAIN bundles'[c].entries :
                                   /\ bundles'[c].entries[j].source = bundle.responses.keys[k]
                                   /\ bundles'[c].entries[j].correlationId = c
       /\ (invocations' = invocations + 1 /\ last'.stage = AG) =>
              LET event == last'.event
              IN /\ event \in ForwardedBundles(event.correlationId)
                 /\ \A k \in CallsNamed(last', "generate_answer") :
                        last'.calls[k].prompt =
                            generate_answer_messages(event.message,
                                format_data_for_llm(event.message, event.responses).data,
                                last'.history)
                 /\ \A r \in responsesTable' \ responsesTable :
                        r.CorrelationId = event.correlationId /\ r.Answer = last'.answer
                 /\ \A r \in responsesTable \ responsesTable' :
                        r.CorrelationId = event.correlationId]_vars

\* C17, witness: two turns have collected responses at the same time and the
\* Answer Generator has answered the bundle of c2 after that of c1.
C17_Witness ==
    /\ bundles["c1"].entries # <<>>
    /\ bundles["c2"].entries # <<>>
    /\ last.stage = AG
    /\ last.event.correlationId = "c2"
    /\ last.result.statusCode = 200
    /\ \E r \in responsesTable : r.CorrelationId = "c1"

Terminal(c) == bundles[c].state \in {"Complete", "TimedOut"}

\* C18: a bundle is forwarded exactly once: not before it is terminal, once at
\* the arrival that makes every expected source present (Complete) or at the
\* timeout with the sources that have arrived (TimedOut), whichever comes
\* first, never a second time; and a collecting bundle becomes terminal.
C18_ForwardedExactlyOnce ==
    /\ [](\A c \in CorrIds :
             LET bundle == bundles[c]
                 present == Sources(bundle.entries)
             IN /\ bundle.state = "Idle" => bundle.forwarded = <<>>
                /\ bundle.state = "Collecting" =>
                       /\ bundle.forwarded = <<>>
                       /\ present # bundle.expected
                /\ Terminal(c) =>
                       /\ Len(bundle.forwarded) = 1
                       /\ bundle.forwarded[1] = AggregatedBundle(c, bundle, bundle.entries)
                       /\ Len(bundle.entries) = Cardinality(present)
                /\ bundle.state = "Complete" => present = bundle.expected
                /\ bundle.state = "TimedOut" =>
                       present \subseteq bundle.expected /\ present # bundle.expected)
    /\ \A c \in CorrIds : (bundles[c].state = "Collecting") ~> Terminal(c)

\* C18, witness: one bundle completed by the arrival of its second source in
\* the reverse of the dispatch order, the other timed out with one of its two
\* sources.
C18_Witness ==
    /\ bundles["c1"].state = "Complete"
    /\ Len(bundles["c1"].entries) = 2
    /\ bundles["c1"].entries[1].source = "GetEnrollmentStatus"
    /\ bundles["c2"].state = "TimedOut"
    /\ Cardinality(bundles["c2"].expected) = 2
    /\ Len(bundles["c2"].entries) = 1

\* C19: a bundle holds one entry per source, and a Worker Response for a
\* source already present replaces that source's entry and changes nothing
\* else (last write wins): the same response a second time leaves the bundle
\* as it is.
C19_SameResponseTwiceIsOnce ==
    [][/\ \A c \in CorrIds :
              Len(bundles'[c].entries) = Cardinality(Sources(bundles'[c].entries))
       /\ (/\ duplicate'
           /\ \/ ~duplicate
              \/ \E c \in CorrIds : bundles'[c].entries # bundles[c].entries) =>
              \E c \in CorrIds :
              \E source \in Sources(bundles[c].entries) :
              \E result \in WorkerResults(source) :
                  LET response == WorkerResponse(c, source, result.data, result.status)
                      entries == bundles[c].entries
                  IN /\ bundles' =
                            [bundles EXCEPT ![c].entries =
                                [i \in DOMAIN entries |->
                                    IF entries[i].source = source THEN response
                                    ELSE entries[i]]]
                     /\ (\E i \in DOMAIN entries : entries[i] = response) =>
                            bundles' = bundles]_vars

\* C19, witness: a bundle waiting for its second source has received a
\* second response for the first one.
C19_Witness ==
    /\ duplicate
    /\ \E c \in CorrIds :
           /\ bundles[c].state = "Collecting"
           /\ Cardinality(bundles[c].expected) = 2
           /\ Len(bundles[c].entries) = 1
           /\ bundles[c].entries[1].status = "success"

\* C20: an Answer Generator invocation that has generated the answer attempts
\* both writes, whatever the outcome of either, the conversation record first
\* and the Final Answer Record second.
C20_AppendThenFinalAnswer ==
    (/\ last.stage = AG
     /\ Called(last, "generate_answer")) =>
        /\ Called(last, "store_conversation_history")
        /\ Called(last, "store_response")
        /\ \A i \in CallsNamed(last, "store_conversation_history") :
               \A j \in CallsNamed(last, "store_response") : i < j

\* the text holds the pieces of sub, in order and next to each other
ContainsSeq(text, sub) ==
    \E k \in 0..(Len(text) - Len(sub)) : SubSeq(text, k + 1, k + Len(sub)) = sub

\* a payload whose values are plain: strings, numbers, booleans
Flat(data) ==
    /\ data.type = "dict"
    /\ data.keys # <<>>
    /\ \A j \in DOMAIN data.vals : data.vals[j].type \in {"str", "num", "bool"}

\* the prompt has the section of the source, and in it the line of every value
HasDataOf(human, source, data) ==
    /\ ContainsSeq(human, <<"\n", source, ":\n">>)
    /\ \A j \in DOMAIN data.keys :
           ContainsSeq(human, <<"  ", data.keys[j], ": ">> \o data.vals[j].val \o <<"\n">>)

DispatchedSources ==
    UNION {{dispatched[i].requiredData[j].source : j \in DOMAIN dispatched[i].requiredData} :
              i \in DOMAIN dispatched}

C22_OnlyEnumeratedWorkersDispatched ==
    \A source \in DispatchedSources :
        source.type = "str" /\ Len(source.val) = 1 /\ source.val[1] \in WorkerIdentifiers

(***************************************************************************)
(* C23: when query analysis yields a non-empty requiredWorkers sequence,   *)
(* the invocation builds one Worker Requirement per listed worker, in      *)
(* order, each with the analysis' parameters, issues exactly one           *)
(* asynchronous dispatcher invocation tagged with the turn's correlationId *)
(* and userId, and returns 202 without writing a conversation record.      *)
(***************************************************************************)
WorkersListed(trace) ==
    /\ trace.stage = QA
    /\ trace.analysis.type = "dict"
    /\ RequiredWorkers(trace.analysis).type = "list"
    /\ Len(RequiredWorkers(trace.analysis).vals) > 0

RequirementsOf(trace) ==
    LET workers == RequiredWorkers(trace.analysis).vals
    IN [i \in DOMAIN workers |->
           [source |-> workers[i], params |-> Lookup(trace.analysis, "parameters")]]

DispatchedOnce(trace, before, after) ==
    /\ Len(after) = Len(before) + 1
    /\ SubSeq(after, 1, Len(before)) = before
    /\ after[Len(after)].correlationId = trace.event.correlationId
    /\ after[Len(after)].userId = trace.event.userId
    /\ after[Len(after)].requiredData = RequirementsOf(trace)

C23_OneDispatchPerAnalysis ==
    [][(invocations' = invocations + 1 /\ WorkersListed(last')) =>
           /\ DispatchedOnce(last', dispatched, dispatched')
           /\ Cardinality(CallsNamed(last', "lambda_client.invoke")) = 1
           /\ last'.result.statusCode = 202
           /\ last'.result.body.requiresWorkers = TRUE
           /\ ~Called(last', "store_conversation_history")
           /\ conversationTable' = conversationTable
           /\ responsesTable' = responsesTable]_vars

\* C23 where the dispatcher accepted the invocation
C23_AcceptedDispatch ==
    [][(invocations' = invocations + 1 /\ WorkersListed(last')
            /\ ~CallFailed(last', "lambda_client.invoke")) =>
           /\ DispatchedOnce(last', dispatched, dispatched')
           /\ Cardinality(CallsNamed(last', "lambda_client.invoke")) = 1
           /\ last'.result.statusCode = 202
           /\ last'.result.body.requiresWorkers = TRUE
           /\ ~Called(last', "store_conversation_history")
           /\ conversationTable' = conversationTable
           /\ responsesTable' = responsesTable]_vars

\* the analysis is the LLM's own value and lists no worker
NoWorkersListed(trace) ==
    /\ trace.stage = QA
    /\ trace.analysis.type = "dict"
    /\ HasKey(trace.analysis, "requiredWorkers")
    /\ RequiredWorkers(trace.analysis) = JList(<<>>)

\* C24: when query analysis succeeds with an empty requiredWorkers sequence
\* the dispatcher is not invoked, one direct answer is asked of the LLM, one
\* conversation write leaves exactly one record for the turn's (userId,
\* correlationId) holding the question and the answer (a failed write leaves
\* the table as it was), and the caller gets the answer with a 200 and
\* requiresWorkers false.
C24_NoWorkersAnsweredDirectly ==
    [][(invocations' = invocations + 1 /\ NoWorkersListed(last')) =>
           LET event == last'.event
               OfTurn(table) == {i \in table : /\ i.UserId = event.userId
                                               /\ i.CorrelationId = event.correlationId}
           IN /\ dispatched' = dispatched
              /\ ~Called(last', "lambda_client.invoke")
              /\ Cardinality(CallsNamed(last', "get_direct_answer")) = 1
              /\ \A k \in CallsNamed(last', "get_direct_answer") :
                     last'.calls[k].ok => last'.answer = <<last'.calls[k].reply.content>>
              /\ last'.result.statusCode = 200
              /\ last'.result.body.message = last'.answer
              /\ last'.result.body.requiresWorkers = FALSE
              /\ last'.result.body.correlationId = event.correlationId
              /\ Cardinality(CallsNamed(last', "store_conversation_history")) = 1
              /\ IF CallFailed(last', "store_conversation_history")
                 THEN conversationTable' = conversationTable
                 ELSE /\ Cardinality(OfTurn(conversationTable')) = 1
                      /\ \A i \in OfTurn(conversationTable') :
                             i.answer = last'.answer /\ i.question = event.message
                      /\ conversationTable' \ OfTurn(conversationTable')
                             = conversationTable \ OfTurn(conversationTable)]_vars

\* C24, witness: an analysis without workers answered by the LLM, the answer
\* stored and returned.
C24_Witness ==
    /\ NoWorkersListed(last)
    /\ last.answer = <<DirectAnswerText>>
    /\ last.result.statusCode = 200
    /\ \E i \in conversationTable :
           /\ i.CorrelationId = last.event.correlationId
           /\ i.UserId = last.event.userId
           /\ i.answer = <<DirectAnswerText>>

\* C25: when the history read returned stored turns, the prompt of the Intent
\* Classifier and the prompt of the Query Analyzer each hold the most recent
\* of them (up to PromptLimit) beside the current message; neither is the
\* bare message.
C25_HistoryReachesClassifierAndAnalyzer ==
    (last.stage = QA /\ last.history # <<>>) =>
        \A k \in CallsNamed(last, "check_for_small_talk") \cup CallsNamed(last, "analyze_query") :
            /\ last.calls[k].prompt.human # <<last.event.message>>
            /\ ContainsSeq(last.calls[k].prompt.human,
                           format_conversation_history_for_prompt(last.history, PromptLimit))
            /\ Contains(last.calls[k].prompt.human, last.event.message)

\* C26: when the LLM call of get_direct_answer fails, the function returns the
\* fixed apology instead of raising: the invocation returns 200 with the
\* apology as its message, and the apology is the answer of the conversation
\* record the invocation writes for the turn.
C26_DirectAnswerApology ==
    [][(/\ invocations' = invocations + 1
        /\ last'.stage = QA
        /\ CallFailed(last', "get_direct_answer")) =>
           LET event == last'.event
               OfTurn(table) == {i \in table : /\ i.UserId = event.userId
                                               /\ i.CorrelationId = event.correlationId}
           IN /\ last'.raised = ""
              /\ last'.answer = DirectAnswerApology
              /\ last'.result.statusCode = 200
              /\ last'.result.body.message = DirectAnswerApology
              /\ Cardinality(CallsNamed(last', "store_conversation_history")) = 1
              /\ IF CallFailed(last', "store_conversation_history")
                 THEN conversationTable' = conversationTable
                 ELSE /\ Cardinality(OfTurn(conversationTable')) = 1
                      /\ \A i \in OfTurn(conversationTable') :
                             i.answer = DirectAnswerApology /\ i.question = event.message]_vars

\* C26, witness: a failed direct-answer call answered 200 with the apology,
\* which the turn's conversation record holds.
C26_Witness ==
    /\ last.stage = QA
    /\ CallFailed(last, "get_direct_answer")
    /\ last.result.statusCode = 200
    /\ last.result.body.message = DirectAnswerApology
    /\ \E i \in conversationTable :
           /\ i.CorrelationId = last.event.correlationId
           /\ i.UserId = last.event.userId
           /\ i.answer = DirectAnswerApology

\* the five outcomes of one LLMQueryAnalyzer invocation, each told by the
\* result and by what the invocation did to the table and the dispatcher
Outcomes(trace, wrote, invoked) ==
    LET result == trace.result
        stored == Called(trace, "store_conversation_history")
        small  == "isSmallTalk" \in DOMAIN result.body
    IN <<result.statusCode = 400 /\ trace.calls = <<>> /\ ~wrote /\ ~invoked,
         result.statusCode = 200 /\ small /\ stored /\ ~invoked
             /\ ~Called(trace, "analyze_query") /\ result.body.message = trace.answer,
         result.statusCode = 200 /\ ~small /\ stored /\ ~invoked
             /\ Called(trace, "get_direct_answer") /\ result.body.message = trace.answer,
         result.statusCode = 202 /\ invoked /\ ~stored /\ ~wrote /\ trace.answer = <<>>,
         result.statusCode = 500 /\ trace.raised # "" /\ ~wrote /\ ~invoked /\ ~stored>>

\* C27: one LLMQueryAnalyzer invocation takes exactly one of the outcomes
\* rejection (400), small-talk answer (200), direct answer (200), dispatch
\* (202) and error (500); it calls the dispatcher at most once, and never
\* together with a conversation write or an answer text; a stage writes the
\* conversation record only with the answer it produced.
C27_ExactlyOneOutcome ==
    [][(invocations' = invocations + 1 /\ last'.stage \in {QA, AG}) =>
           LET wrote    == conversationTable' # conversationTable
               invoked  == dispatched' # dispatched
               outcomes == Outcomes(last', wrote, invoked)
           IN /\ last'.stage = QA =>
                     /\ Cardinality({o \in DOMAIN outcomes : outcomes[o]}) = 1
                     /\ Cardinality(CallsNamed(last', "lambda_client.invoke")) <= 1
                     /\ Len(dispatched') <= Len(dispatched) + 1
                     /\ Called(last', "lambda_client.invoke") =>
                            /\ ~Called(last', "store_conversation_history")
                            /\ ~wrote
                            /\ last'.answer = <<>>
              /\ (wrote \/ Called(last', "store_conversation_history")) =>
                     /\ last'.answer # <<>>
                     /\ last'.stage = AG => Called(last', "generate_answer")
                     /\ wrote => \E i \in conversationTable' \ conversationTable :
                                     /\ i.answer = last'.answer
                                     /\ i.CorrelationId = last'.event.correlationId]_vars

\* C27, witness: an accepted dispatch after a turn that was answered directly
\* and stored.
C27_Witness ==
    /\ last.stage = QA
    /\ last.result.statusCode = 202
    /\ Len(dispatched) = 1
    /\ ~Called(last, "store_conversation_history")
    /\ \E i \in conversationTable : i.CorrelationId # last.event.correlationId

(***************************************************************************)
(* Two users of one table: a second user has a stored turn (c1), gets its   *)
(* answer and asks a new question (c2) between the turns of the first.     *)
(***************************************************************************)
OtherUser == "u2"
OtherMessage == "When is my exam?"
OtherAnswer == <<"Your exam is on Monday.">>

InitShared ==
    /\ conversationTable = {ConversationItem(OtherUser, "c1", OtherMessage, OtherAnswer, 0)}
    /\ responsesTable = {}
    /\ dispatched = <<>>
    /\ now = 0
    /\ invocations = 0
    /\ last = NoInvocation
    /\ AggregatorInit

OtherUserAsks ==
    /\ invocations < MaxInvocations
    /\ LLMQueryAnalyzer_lambda_handler(QAEvent("c2", OtherUser, OtherMessage))

OtherUserAnswered ==
    /\ invocations < MaxInvocations
    /\ AnswerGenerator_lambda_handler(AGEvent("c1", OtherUser, OtherMessage, WrappedResponses))

NextShared == Next \/ OtherUserAsks \/ OtherUserAnswered

SpecShared == InitShared /\ [][NextShared]_vars

\* C28: a history read for userId u returns only turns of records whose
\* UserId is u, and no prompt of u's invocation holds the question of another
\* user's record, nor an answer that only other users' records hold.
C28_OnlyOwnTurnsInContext ==
    [][(/\ invocations' = invocations + 1
        /\ last'.stage \in {QA, AG}
        /\ Called(last', "get_conversation_history")) =>
           LET u       == last'.event.userId
               own     == {i \in conversationTable : i.UserId = u}
               foreign == {i \in conversationTable : i.UserId # u}
           IN /\ \A k \in DOMAIN last'.history :
                     \E i \in own : last'.history[k] = HistoryEntry(i)
              /\ \A k \in LLMCalls(last') : \A i \in foreign :
                     /\ i.question # last'.event.message =>
                            ~Contains(last'.calls[k].prompt.human, i.question)
                     /\ (\A j \in own : j.answer # i.answer) =>
                            ~ContainsSeq(last'.calls[k].prompt.human, i.answer)]_vars

\* C28, witness: an answer generated for u1 from u1's own stored turn while
\* the table also holds a turn of u2.
C28_Witness ==
    /\ last.stage = AG
    /\ last.event.userId = "u1"
    /\ last.history # <<>>
    /\ \E k \in CallsNamed(last, "generate_answer") :
           ContainsSeq(last.calls[k].prompt.human, <<"Student: ", "What is my GPA?">>)
    /\ \E i \in conversationTable : i.UserId = OtherUser /\ i.question = OtherMessage
    /\ \E i \in conversationTable : i.UserId = "u1"

\* C29: an AnswerGenerator event that lacks correlationId, userId or message
\* is answered 400 and nothing else happens: no conversation read, no LLM
\* call, no write; both tables and the dispatcher are as they were.
C29_RejectedBundleChangesNothing ==
    [][(/\ invocations' = invocations + 1
        /\ last'.stage = AG
        /\ MissingField(last'.event)) =>
           /\ last'.result = AG_BadRequest
           /\ last'.calls = <<>>
           /\ last'.history = <<>>
           /\ last'.answer = <<>>
           /\ conversationTable' = conversationTable
           /\ responsesTable' = responsesTable
           /\ dispatched' = dispatched]_vars

\* C29, witness: a bundle without one of the three fields rejected after a
\* turn that left records in both tables.
C29_Witness ==
    /\ last.stage = AG
    /\ MissingField(last.event)
    /\ Truthy(last.event.responses)
    /\ last.result.statusCode = 400
    /\ conversationTable # {}
    /\ responsesTable # {}

====
